---- MODULE Spec2Model ----
(***************************************************************************)
(* The two Cohere chat engines of llama_index/chat_engine:                 *)
(*   CohereContextChatEngine               (cohere_context.py)             *)
(*   CohereContextPlusCitationsChatEngine  (cohere_context_plus_citations) *)
(* Each overrides chat, stream_chat, achat and astream_chat of the base    *)
(* ContextChatEngine.  The model follows one engine instance and its       *)
(* conversation memory: every entry point is cut into the statements that  *)
(* touch the shared memory or a collaborator (retriever, LLM), and the     *)
(* thread started by the streaming entry points is a process of its own.   *)
(***************************************************************************)
EXTENDS Integers, Sequences, FiniteSets

VARIABLES
    engine,     \* which of the two classes the instance is
    usage,      \* how the instance is driven (see Usages)
    memory,     \* self._memory: the ordered message log
    call,       \* per caller: the frame of its current entry-point call
    writer,     \* per turn: the background thread of a streaming call
    nturns,     \* number of entry-point calls issued so far
    past        \* history: which kinds of event have happened so far

vars == <<engine, usage, memory, call, writer, nturns, past>>

(***************************** bounds *************************************)
\* entry-point calls issued in one behaviour
MaxTurns == 2
\* longest LLM stream, in chunks
MaxChunks == 1

(***************************** vocabulary *********************************)
Engines == {"CohereContextChatEngine", "CohereContextPlusCitationsChatEngine"}
Kinds == {"chat", "stream_chat", "achat", "astream_chat"}
StreamingKinds == {"stream_chat", "astream_chat"}
\* "single", "replies" and "observed": one caller; "concurrent": two callers
\* running chat and achat calls on the same engine.  In all of them the
\* writer thread of a streaming call runs on its own from thread.start() on:
\* nothing joins it.
Usages == {"single", "replies", "observed", "concurrent"}
Callers == {1, 2}
ActiveCallers(u) == IF u = "concurrent" THEN {1, 2} ELSE {1}
Turns == 1..MaxTurns

Messages == {"a", "b"}
\* chat_response.message.content: a text, or None
NoneValue == "<None>"
Contents == {"r", NoneValue}

UserRole == "user"
AssistantRole == "assistant"
SystemRole == "system"

\* chat_history arguments: not given, or one of three small histories
HistUser == [role |-> UserRole, turn |-> 0, content |-> "h"]
HistAssistant == [role |-> AssistantRole, turn |-> 0, content |-> "k"]
Histories == {<<>>, <<HistUser>>, <<HistUser, HistAssistant>>}
NoHistory == [given |-> FALSE, value |-> <<>>]
HistoryArgs == {NoHistory} \cup {[given |-> TRUE, value |-> h] : h \in Histories}

\* the raw vendor payload: each of the two keys is present or absent
Absent == [present |-> FALSE, value |-> <<>>]
Present(v) == [present |-> TRUE, value |-> v]
Raws == [citations : {Absent, Present(<<"c1">>)},
         documents : {Absent, Present(<<"d1">>)}]

NoRaw == [citations |-> Absent, documents |-> Absent]

\* what the retriever returns: the scored nodes, none or one
NodeLists == {<<>>, <<"n1">>}

\* What a behaviour draws its inputs and its collaborators' answers from.
\* The usage "single" varies the caller's inputs (message texts, chat_history
\* arguments), the usage "replies" the collaborators' answers (reply
\* contents, raw payloads, retrieved nodes); the usages "observed" and
\* "concurrent" keep the observations the properties read (see Observed and
\* Noted) and draw from smaller sets.  The turn number tells the messages
\* apart in all of them.
MessagesFor(u) == IF u = "single" THEN Messages ELSE {"a"}
ContentsFor(u) == IF u \in {"replies", "observed"} THEN Contents ELSE {"r"}
RawsFor(u) == IF u = "replies" THEN Raws ELSE {NoRaw}
NodesFor(u) == IF u = "replies" THEN NodeLists ELSE {<<"n1">>}
KindsFor(u) == IF u = "concurrent" THEN Kinds \ StreamingKinds ELSE Kinds
HistoryArgsFor(u) ==
    IF u = "single" THEN HistoryArgs
    ELSE IF u = "replies" THEN {NoHistory}
    ELSE IF u = "observed"
    THEN {NoHistory, [given |-> TRUE, value |-> <<HistUser, HistAssistant>>]}
    ELSE {NoHistory, [given |-> TRUE, value |-> <<HistUser>>]}

Range(s) == {s[i] : i \in 1..Len(s)}

(***************************** memory *************************************)
\* The memory collaborator: set, put, get_all, reset.
MemorySet(mem, messages) == messages
MemoryPut(mem, m) == Append(mem, m)
MemoryGetAll(mem) == mem
MemoryReset(mem) == <<>>

(***************************** pure parts *********************************)
\* ChatMessage(content=message, role="user")
UserMessage(message, turn) ==
    [role |-> UserRole, turn |-> turn, content |-> message]

\* chat_response.message of an LLM reply
AssistantMessage(content, turn) ==
    [role |-> AssistantRole, turn |-> turn, content |-> content]

\* prefix_messages[0]: the system message holding the retrieved context
PrefixMessage(turn) ==
    [role |-> SystemRole, turn |-> turn, content |-> "context"]

\* if chat_history is not None: self._memory.set(chat_history)
AfterSet(mem, chat_history) ==
    IF chat_history.given THEN MemorySet(mem, chat_history.value) ELSE mem

\* all_messages = self._memory.get_all()
AllMessages(mem, prefix) == MemoryGetAll(mem)

\* faulty variant: raw.get(key): no default, an absent key gives None
RawGetNoDefault(raw, key) == IF raw[key].present THEN raw[key].value ELSE <<"None">>

\* raw.get(key, [])
RawGet(raw, key) == IF raw[key].present THEN raw[key].value ELSE <<>>

\* str(x): a text is its own str, None prints as "None"
Str(x) == IF x = NoneValue THEN "None" ELSE x

\* str(prefix_messages[0]): "<role>: <content>"
MessageStr(m) == <<m.role, ": ", m.content>>

\* the ToolOutput chat and achat build: CohereContextChatEngine hands out
\* the prefix message itself as raw_output, the other class a dict around it
ToolOutput(eng, reply, prefix, message) ==
    [tool_name |-> "retriever",
     content |-> MessageStr(prefix),
     raw_input |-> [message |-> message],
     raw_output |->
        IF eng = "CohereContextChatEngine"
        THEN prefix
        ELSE [prefix_message |-> prefix,
              documents_list |-> RawGet(reply.raw, "documents"),
              citations |-> RawGet(reply.raw, "citations")]]

\* the object stream_chat and astream_chat return, in both classes:
\* raw_output is the prefix message itself
StreamingResponse(prefix, message, nodes) ==
    [response |-> "",
     sources |-> <<[tool_name |-> "retriever",
                    content |-> MessageStr(prefix),
                    raw_input |-> [message |-> message],
                    raw_output |-> prefix]>>,
     source_nodes |-> nodes]

\* the object chat and achat return
ChatResponse(eng, reply, prefix, message, nodes) ==
    IF eng = "CohereContextChatEngine"
    THEN [response |-> Str(reply.message.content),
          citations |-> RawGet(reply.raw, "citations"),
          documents |-> RawGet(reply.raw, "documents"),
          sources |-> <<ToolOutput(eng, reply, prefix, message)>>,
          source_nodes |-> nodes]
    ELSE [response |-> Str(reply.message.content),
          sources |-> <<ToolOutput(eng, reply, prefix, message)>>,
          source_nodes |-> nodes]

\* the names a module can call: cohere_context.py imports
\* CohereAgentChatResponse and CohereStreamingAgentChatResponse only, and its
\* astream_chat calls StreamingAgentChatResponse.
ResponseClassBound(eng, kind) ==
    ~(eng = "CohereContextChatEngine" /\ kind = "astream_chat")

(***************************** state **************************************)
NoReply == [message |-> AssistantMessage("", 0), raw |-> NoRaw]
NoResponse == [response |-> "", sources |-> <<>>, source_nodes |-> <<>>]

IdleCall ==
    [pc |-> "idle", kind |-> "chat", message |-> "a", chat_history |-> NoHistory,
     turn |-> 0, stored |-> <<>>, nodes |-> <<>>, all_messages |-> <<>>,
     user_puts |-> 0, ai_puts |-> 0, llm_calls |-> 0, retrievals |-> 0,
     put_before_llm |-> FALSE, llm_before_ai |-> FALSE,
     reply |-> NoReply, chunks |-> 0, outcome |-> "none", error |-> "none",
     response |-> NoResponse, at_return |-> <<>>, read |-> <<>>]

IdleWriter == [state |-> "none", remaining |-> 0, content |-> "", started |-> 0, appended |-> 0]

InitWith(u) ==
    /\ engine \in Engines
    /\ usage = u
    /\ memory = <<>>
    /\ call = [c \in Callers |-> IdleCall]
    /\ writer = [t \in Turns |-> IdleWriter]
    /\ nturns = 0
    /\ past = {}

\* a caller may start an operation when it is between calls
MayStart(c) ==
    /\ c \in ActiveCallers(usage)
    /\ call[c].pc \in {"idle", "done", "reset", "read", "read_after_reset"}

\* the two concurrent callers only run calls
MayAccess(c) == MayStart(c) /\ usage # "concurrent"

\* The frame fields stored and at_return are observations for the per-call
\* contracts: what the memory held when the call put its user message (the
\* history the message was appended to) and when the call returned or raised.  They are kept in the usages "observed" and
\* "concurrent".
Observed(mem) == IF usage \in {"observed", "concurrent"} THEN mem ELSE <<>>

\* past is the observation for the properties of whole behaviours: the
\* kinds of event that have happened, among "streamed" (a streaming entry
\* point was called), "replaced" (a chat_history was passed), "raised" (a
\* call raised) and "reset".  It is kept in the same usages.
Noted(events) == IF usage \in {"observed", "concurrent"} THEN past \cup events ELSE past

(***************************** entry points *******************************)
\* Entry into chat / stream_chat / achat / astream_chat, with the conditional
\* self._memory.set(chat_history) that opens each of them.
Call(c, kind, message, chat_history) ==
    /\ MayStart(c)
    /\ nturns < MaxTurns
    /\ nturns' = nturns + 1
    /\ memory' = AfterSet(memory, chat_history)
    /\ call' = [call EXCEPT ![c] =
                   [IdleCall EXCEPT !.pc = "put", !.kind = kind,
                                    !.message = message,
                                    !.chat_history = chat_history,
                                    !.turn = nturns + 1]]
    /\ past' = Noted((IF kind \in StreamingKinds THEN {"streamed"} ELSE {})
                        \cup (IF chat_history.given THEN {"replaced"} ELSE {}))
    /\ UNCHANGED <<engine, usage, writer>>

\* faulty variant: the user message is never put
PutUserForgotten(c) ==
    /\ call[c].pc = "put"
    /\ call' = [call EXCEPT ![c].pc = "retrieve"]
    /\ UNCHANGED <<engine, usage, memory, writer, nturns, past>>

\* self._memory.put(ChatMessage(content=message, role="user"))
PutUser(c) ==
    /\ call[c].pc = "put"
    /\ memory' = MemoryPut(memory, UserMessage(call[c].message, call[c].turn))
    /\ call' = [call EXCEPT ![c].pc = "retrieve",
                            ![c].stored = Observed(memory),
                            ![c].user_puts = call[c].user_puts + 1]
    /\ UNCHANGED <<engine, usage, writer, nturns, past>>

\* self._generate_context(message) / await self._agenerate_context(message),
\* then self._get_prefix_messages_with_context(...).  The retriever answers
\* or raises; nothing catches what it raises, and a call whose retriever
\* raised has bound no nodes.
Retrieve(c) ==
    /\ call[c].pc = "retrieve"
    /\ \E ok \in BOOLEAN :
      \E nodes \in (IF ok THEN NodesFor(usage) ELSE {<<>>}) :
          /\ call' = [call EXCEPT
                      ![c].retrievals = call[c].retrievals + 1,
                      ![c].nodes = nodes,
                      ![c].pc = IF ok THEN "get_all" ELSE "done",
                      ![c].outcome = IF ok THEN "none" ELSE "raised",
                      ![c].error = IF ok THEN "none" ELSE "retriever",
                      ![c].at_return = IF ok THEN <<>> ELSE Observed(memory)]
          /\ past' = IF ok THEN past ELSE Noted({"raised"})
    /\ UNCHANGED <<engine, usage, memory, writer, nturns>>

\* all_messages = self._memory.get_all()
GetAll(c) ==
    /\ call[c].pc = "get_all"
    /\ call' = [call EXCEPT
                   ![c].pc = "llm",
                   ![c].all_messages = AllMessages(memory, PrefixMessage(call[c].turn))]
    /\ UNCHANGED <<engine, usage, memory, writer, nturns, past>>

\* The LLM is invoked: self._llm.chat(all_messages, documents=...) or its
\* await-ed, streaming or await-ed streaming form.  A streaming entry point
\* first looks up the response class it is about to call; an unbound name
\* raises NameError before the LLM is reached.
LlmCall(c) ==
    /\ call[c].pc = "llm"
    /\ IF call[c].kind \in StreamingKinds /\ ~ResponseClassBound(engine, call[c].kind)
       THEN /\ call' = [call EXCEPT ![c].pc = "done",
                                    ![c].outcome = "raised",
                                    ![c].error = "NameError",
                                    ![c].at_return = Observed(memory)]
            /\ past' = Noted({"raised"})
       ELSE /\ call' = [call EXCEPT
                     ![c].pc = "llm_wait",
                     ![c].llm_calls = call[c].llm_calls + 1,
                     ![c].put_before_llm =
                         (UserMessage(call[c].message, call[c].turn) \in Range(memory))]
            /\ past' = past
    /\ UNCHANGED <<engine, usage, memory, writer, nturns>>

\* The LLM answers or raises; the caller was blocked (chat, stream_chat) or
\* suspended (achat, astream_chat) meanwhile, holding no lock.
LlmReturn(c) ==
    /\ call[c].pc = "llm_wait"
    /\ \E ok \in BOOLEAN, content \in ContentsFor(usage),
          raw \in RawsFor(usage), n \in 0..MaxChunks :
          /\ ~ok => (content = "r" /\ raw = NoRaw)
          /\ (~ok \/ call[c].kind \notin StreamingKinds) => n = 0
          /\ call[c].kind \in StreamingKinds => raw = NoRaw
          /\ past' = IF ok THEN past ELSE Noted({"raised"})
          /\ call' = [call EXCEPT
                ![c].pc = IF ~ok THEN "done"
                          ELSE IF call[c].kind \in StreamingKinds
                               THEN "start_thread" ELSE "put_ai",
                ![c].outcome = IF ok THEN "none" ELSE "raised",
                ![c].error = IF ok THEN "none" ELSE "llm",
                ![c].at_return = IF ok THEN <<>> ELSE Observed(memory),
                ![c].chunks = n,
                ![c].reply = IF ok
                             THEN [message |-> AssistantMessage(content, call[c].turn),
                                   raw |-> raw]
                             ELSE NoReply]
    /\ UNCHANGED <<engine, usage, memory, writer, nturns>>

\* chat / achat after the LLM has answered:
\*   ai_message = chat_response.message; self._memory.put(ai_message)
PutAssistant(c) ==
    /\ call[c].pc = "put_ai"
    /\ memory' = MemoryPut(memory, call[c].reply.message)
    /\ call' = [call EXCEPT
                   ![c].pc = "return_chat",
                   ![c].ai_puts = call[c].ai_puts + 1,
                   ![c].llm_before_ai = (call[c].llm_calls = 1)]
    /\ UNCHANGED <<engine, usage, writer, nturns, past>>

\* chat / achat: return (Cohere)AgentChatResponse(...)
ReturnChat(c) ==
    /\ call[c].pc = "return_chat"
    /\ call' = [call EXCEPT
                   ![c].pc = "done",
                   ![c].outcome = "returned",
                   ![c].response = ChatResponse(engine, call[c].reply,
                                                PrefixMessage(call[c].turn),
                                                call[c].message, call[c].nodes),
                   ![c].at_return = Observed(memory)]
    /\ UNCHANGED <<engine, usage, memory, writer, nturns, past>>

\* stream_chat / astream_chat after the LLM has handed out the stream:
\*   chat_response = (Cohere)StreamingAgentChatResponse(...)
\*   thread = Thread(target=...write_response_to_history, args=(self._memory,))
\*   thread.start()
\* The thread runs from here on, the call has yet to return.
StartWriter(c) ==
    /\ call[c].pc = "start_thread"
    /\ writer' = [writer EXCEPT ![call[c].turn] =
                     [state |-> "running",
                      remaining |-> call[c].chunks,
                      content |-> call[c].reply.message.content,
                      started |-> writer[call[c].turn].started + 1,
                      appended |-> 0]]
    /\ call' = [call EXCEPT
                   ![c].pc = "return",
                   ![c].response = StreamingResponse(PrefixMessage(call[c].turn),
                                                     call[c].message, call[c].nodes)]
    /\ UNCHANGED <<engine, usage, memory, nturns, past>>

\* stream_chat / astream_chat: return chat_response
ReturnStream(c) ==
    /\ call[c].pc = "return"
    /\ call' = [call EXCEPT ![c].pc = "done",
                            ![c].outcome = "returned",
                            ![c].at_return = Observed(memory)]
    /\ UNCHANGED <<engine, usage, memory, writer, nturns, past>>

(***************************** background writer **************************)
\* write_response_to_history / awrite_response_to_history: take the next
\* chunk of the stream and hand it to the consumer's queue ...
WriterDrain(t) ==
    /\ writer[t].state = "running"
    /\ writer[t].remaining > 0
    /\ writer' = [writer EXCEPT ![t].remaining = writer[t].remaining - 1]
    /\ UNCHANGED <<engine, usage, memory, call, nturns, past>>

\* ... and, the stream exhausted, memory.put(the assistant message)
WriterAppend(t) ==
    /\ writer[t].state = "running"
    /\ writer[t].remaining = 0
    /\ memory' = MemoryPut(memory, AssistantMessage(writer[t].content, t))
    /\ writer' = [writer EXCEPT ![t].state = "done",
                                ![t].appended = writer[t].appended + 1]
    /\ UNCHANGED <<engine, usage, call, nturns, past>>

(***************************** reset and chat_history *********************)
\* def reset(self): self._memory.reset()
Reset(c) ==
    /\ MayAccess(c)
    /\ memory' = MemoryReset(memory)
    /\ call' = [call EXCEPT ![c] = [IdleCall EXCEPT !.pc = "reset"]]
    /\ past' = Noted({"reset"})
    /\ UNCHANGED <<engine, usage, writer, nturns>>

\* the chat_history property: return self._memory.get_all()
ChatHistory(c) ==
    /\ MayAccess(c)
    /\ call[c].pc \in {"idle", "done", "reset"}
    /\ call' = [call EXCEPT ![c] =
                   [IdleCall EXCEPT
                       !.pc = IF call[c].pc = "reset" THEN "read_after_reset" ELSE "read",
                       !.read = MemoryGetAll(memory)]]
    /\ UNCHANGED <<engine, usage, memory, writer, nturns, past>>

(***************************** specifications *****************************)
\* a caller calls one of the four entry points
Calls ==
    \E c \in Callers, kind \in KindsFor(usage),
       message \in MessagesFor(usage), h \in HistoryArgsFor(usage) :
          Call(c, kind, message, h)

Next ==
    \/ Calls
    \/ \E c \in Callers : PutUser(c)
    \/ \E c \in Callers : Retrieve(c)
    \/ \E c \in Callers : GetAll(c)
    \/ \E c \in Callers : LlmCall(c)
    \/ \E c \in Callers : LlmReturn(c)
    \/ \E c \in Callers : PutAssistant(c)
    \/ \E c \in Callers : ReturnChat(c)
    \/ \E c \in Callers : StartWriter(c)
    \/ \E c \in Callers : ReturnStream(c)
    \/ \E t \in Turns : WriterDrain(t)
    \/ \E t \in Turns : WriterAppend(t)
    \/ \E c \in Callers : Reset(c)
    \/ \E c \in Callers : ChatHistory(c)

\* one caller; the writers of its streaming calls run detached from it
Init == InitWith("single")
Spec == Init /\ [][Next]_vars

\* one caller, the replies of the LLM and the retriever varied
InitReplies == InitWith("replies")
SpecReplies == InitReplies /\ [][Next]_vars

\* one caller, the observations kept
InitObserved == InitWith("observed")
SpecObserved == InitObserved /\ [][Next]_vars

\* one caller, or two callers on the same engine
InitCallers == InitWith("observed") \/ InitWith("concurrent")
SpecCallers == InitCallers /\ [][Next]_vars

(***************************** vocabulary of the properties ***************)
User(c) == UserMessage(call[c].message, call[c].turn)
Count(seq, m) == Cardinality({i \in 1..Len(seq) : seq[i] = m})
NonStreaming(c) == call[c].kind \notin StreamingKinds
Streaming(c) == call[c].kind \in StreamingKinds
InCall(c) ==
    call[c].pc \in {"put", "retrieve", "get_all", "llm", "llm_wait", "put_ai",
                    "return_chat", "start_thread", "return", "done"}
Returned(c) == call[c].pc = "done" /\ call[c].outcome = "returned"
Raised(c) == call[c].pc = "done" /\ call[c].outcome = "raised"
\* the call has executed all_messages = self._memory.get_all()
PastGetAll(c) ==
    \/ call[c].pc \in {"llm", "llm_wait", "put_ai", "return_chat", "start_thread", "return"}
    \/ call[c].pc = "done" /\ call[c].error # "retriever"
\* the history the call works on: chat_history when given, else what was stored
Effective(c) ==
    IF call[c].chat_history.given THEN call[c].chat_history.value ELSE call[c].stored

\* an assistant message of another turn, as the writer of that turn's
\* streaming call appends it
WriterMessages(c) ==
    {AssistantMessage(content, t) : content \in Contents,
                                     t \in Turns \ {call[c].turn}}

AdjacentUsers ==
    \E i \in 1..(Len(memory) - 1) :
        memory[i].role = UserRole /\ memory[i + 1].role = UserRole
ForeignInInput ==
    \E c \in Callers, d \in Callers :
        /\ c # d
        /\ call[d].turn > 0
        /\ User(d) \in Range(call[c].all_messages)
WellOrdered(mem) ==
    /\ \A i \in 1..Len(mem) :
          /\ mem[i].role = UserRole /\ i < Len(mem) =>
                (mem[i + 1].role = AssistantRole /\ mem[i + 1].turn = mem[i].turn)
          /\ mem[i].role = AssistantRole =>
                (i > 1 /\ mem[i - 1].role = UserRole /\ mem[i - 1].turn = mem[i].turn)
    /\ \A i \in 1..Len(mem), j \in 1..Len(mem) : mem[i] = mem[j] => i = j

(***************************** C1 *****************************************)
\* C1: in every entry point of both engines, for every message and every
\* chat_history argument, the call appends exactly one user message carrying
\* the given text, and the append comes before the LLM is invoked: the LLM is
\* never invoked while that message is missing from memory.
C1_UserPutOnceBeforeLlm ==
    \A c \in Callers :
        InCall(c) =>
            /\ call[c].pc = "put" =>
                  (call[c].user_puts = 0 /\ call[c].llm_calls = 0 /\ Count(memory, User(c)) = 0)
            /\ call[c].pc \in {"retrieve", "get_all", "llm", "llm_wait"} =>
                  (call[c].user_puts = 1 /\ Count(memory, User(c)) = 1)
            /\ call[c].pc # "put" => call[c].user_puts = 1
            /\ \A i \in 1..Len(memory) :
                  (memory[i].role = UserRole /\ memory[i].turn = call[c].turn)
                      => memory[i].content = call[c].message
            /\ call[c].llm_calls > 0 => call[c].put_before_llm

C1_Witness ==
    \E c \in Callers :
        /\ call[c].kind = "astream_chat"
        /\ call[c].chat_history.given
        /\ call[c].message = "b"
        /\ call[c].llm_calls = 1
        /\ call[c].put_before_llm

(***************************** C2 *****************************************)
\* C2: after any sequence of calls by one caller on an initially empty memory,
\* without chat_history replacement, and also while the writers of earlier
\* streaming calls are still running, the history is ordered user message then
\* assistant message: no two adjacent user messages, every assistant message
\* right after the user message of its own turn, no message twice.  (Stated
\* here for behaviours in which, besides, no call raised and reset was never
\* called, so that only the detached writers are left to break it.)
C2_HistoryOrdered ==
    (past \cap {"replaced", "raised", "reset"} = {}) => WellOrdered(memory)

(***************************** C3 *****************************************)
\* C3: a chat or achat call whose retrieval and LLM call succeed invokes the
\* LLM exactly once, appends exactly one assistant message, the reply's, and
\* only after the LLM has returned, so that memory at return is the history
\* sent to the LLM followed by that message; and the response text is the
\* content of the reply's message.  (The last part is stated here for
\* replies whose content is a text: for the content None the response text
\* is "None".)
C3_NonStreamingSuccess ==
    \A c \in Callers :
        /\ (NonStreaming(c) /\ call[c].pc \in {"put", "retrieve", "get_all", "llm"})
              => (call[c].ai_puts = 0 /\ call[c].llm_calls = 0)
        /\ (NonStreaming(c) /\ call[c].pc \in {"llm_wait", "put_ai"})
              => (call[c].ai_puts = 0 /\ call[c].llm_calls = 1)
        /\ (NonStreaming(c) /\ call[c].pc = "return_chat")
              => (call[c].ai_puts = 1 /\ call[c].llm_calls = 1)
        /\ (NonStreaming(c) /\ call[c].pc = "done" /\ call[c].error = "none") =>
              /\ call[c].outcome = "returned"
              /\ call[c].llm_calls = 1
              /\ call[c].ai_puts = 1
              /\ call[c].llm_before_ai
              /\ call[c].reply.message.role = AssistantRole
              /\ call[c].at_return = call[c].all_messages \o <<call[c].reply.message>>
              /\ call[c].reply.message.content # NoneValue =>
                    call[c].response.response = call[c].reply.message.content

\* a chat call returns with the assistant message of an earlier streaming
\* call between the history it sent to the LLM and its own assistant message
C3_Witness ==
    \E c \in Callers :
        /\ Returned(c)
        /\ call[c].kind = "chat"
        /\ \E w \in WriterMessages(c) :
              call[c].at_return = call[c].all_messages \o <<w, call[c].reply.message>>

(***************************** C4 *****************************************)
\* C4: every streaming call of either engine returns its streaming response
\* object without waiting for the stream, and the assistant message of the
\* call is in memory only once the writer has drained the whole stream.
AppendOnlyAfterDrain ==
    \A t \in Turns :
        /\ writer[t].state = "none" =>
              \A i \in 1..Len(memory) :
                  ~(memory[i].role = AssistantRole /\ memory[i].turn = t
                    /\ \E c \in Callers : call[c].turn = t /\ Streaming(c))
        /\ writer[t].state = "running" =>
              Count(memory, AssistantMessage(writer[t].content, t)) = 0
        /\ writer[t].appended > 0 => writer[t].remaining = 0

C4_StreamingReturnsThenAppends ==
    /\ \A c \in Callers :
          (Streaming(c) /\ call[c].pc = "done" /\ call[c].error \notin {"retriever", "llm"})
              => call[c].outcome = "returned"
    /\ AppendOnlyAfterDrain

(***************************** C5 *****************************************)
\* C5: every streaming call of either engine whose retriever and LLM answer
\* starts exactly one background writer, which appends the call's assistant
\* message exactly once.
C5_OneWriterPerStreamingCall ==
    \A c \in Callers :
        (Streaming(c) /\ call[c].pc = "done" /\ call[c].error \notin {"retriever", "llm"})
            => /\ writer[call[c].turn].started = 1
               /\ writer[call[c].turn].appended <= 1

(***************************** C6 *****************************************)
\* C6: for every chat or achat call and every raw reply payload,
\* CohereContextChatEngine returns the payload's "citations" and "documents"
\* as the response's fields of those names, and
\* CohereContextPlusCitationsChatEngine returns one source whose raw output
\* holds the prefix message and those two values; an absent key gives an
\* empty sequence, and the call does not fail on it.
Payload(raw, key) == IF raw[key].present THEN raw[key].value ELSE <<>>

C6_CitationsAndDocuments ==
    \A c \in Callers :
        (NonStreaming(c) /\ call[c].pc = "done" /\ call[c].error = "none") =>
            LET raw == call[c].reply.raw
                r == call[c].response
            IN  /\ call[c].outcome = "returned"
                /\ IF engine = "CohereContextChatEngine"
                   THEN /\ r.citations = Payload(raw, "citations")
                        /\ r.documents = Payload(raw, "documents")
                   ELSE /\ Len(r.sources) = 1
                        /\ r.sources[1].raw_output.prefix_message
                              = PrefixMessage(call[c].turn)
                        /\ r.sources[1].raw_output.citations = Payload(raw, "citations")
                        /\ r.sources[1].raw_output.documents_list = Payload(raw, "documents")

C6_Witness ==
    \E c \in Callers :
        /\ Returned(c)
        /\ NonStreaming(c)
        /\ engine = "CohereContextPlusCitationsChatEngine"
        /\ ~call[c].reply.raw.citations.present
        /\ call[c].reply.raw.documents.present
        /\ call[c].response.sources[1].raw_output.citations = <<>>
        /\ call[c].response.sources[1].raw_output.documents_list = <<"d1">>

(***************************** C7 *****************************************)
\* C7: reset() followed by a read of chat_history returns the empty sequence,
\* whatever calls came before, streaming calls included.
C7_EmptyAfterReset ==
    \A c \in Callers : call[c].pc = "read_after_reset" => call[c].read = <<>>

(***************************** C8 *****************************************)
\* C8: when the retriever or the LLM fails in a chat or achat call, the
\* failed collaborator was invoked once, no assistant message is appended for
\* the call, and the user message stays, so that memory after the call is the
\* history stored before the call followed by the user message.  (Stated
\* here for calls that pass no chat_history: one that is passed replaces the
\* history stored before the call.  The history stored before the call is
\* taken as late as can be: it is what memory held when the call put its
\* user message.)
C8_FailureKeepsPreCallHistory ==
    \A c \in Callers :
        (NonStreaming(c) /\ Raised(c) /\ ~call[c].chat_history.given) =>
            /\ call[c].ai_puts = 0
            /\ call[c].retrievals = 1
            /\ call[c].llm_calls = (IF call[c].error = "llm" THEN 1 ELSE 0)
            /\ call[c].at_return = call[c].stored \o <<User(c)>>

\* a chat call whose retriever raised ends with the assistant message of an
\* earlier streaming call after its user message
C8_Witness ==
    \E c \in Callers :
        /\ Raised(c)
        /\ call[c].kind = "chat"
        /\ call[c].error = "retriever"
        /\ ~call[c].chat_history.given
        /\ \E w \in WriterMessages(c) :
              call[c].at_return = call[c].stored \o <<User(c), w>>

(***************************** C9 *****************************************)
\* C9: every entry point replaces, then appends: with a chat_history argument
\* the sequence passed to the LLM is chat_history followed by the new user
\* message; without one the stored history is kept and the sequence is the
\* stored history followed by the new user message.  The prefix message is
\* neither passed to the LLM nor stored.
C9_ReplaceThenAppend ==
    /\ \A c \in Callers :
          PastGetAll(c) =>
              /\ call[c].all_messages = Effective(c) \o <<User(c)>>
              /\ \A i \in 1..Len(call[c].all_messages) :
                    call[c].all_messages[i].role # SystemRole
    /\ \A i \in 1..Len(memory) : memory[i].role # SystemRole

\* a chat call passes to the LLM the assistant message of an earlier
\* streaming call after its own user message
C9_Witness ==
    \E c \in Callers :
        /\ call[c].pc = "llm"
        /\ call[c].kind = "chat"
        /\ \E w \in WriterMessages(c) :
              call[c].all_messages = Effective(c) \o <<User(c), w>>

(***************************** C10 ****************************************)
\* C10, its last part: with one caller issuing only chat and achat calls, no
\* state has two user messages with no assistant message between them, and
\* no call passes another caller's user message to the LLM.  (Stated here
\* for calls that pass no chat_history, so that a history handed in with two
\* adjacent user messages is not what breaks it.)
C10_SingleCallerNoInterleaving ==
    (usage = "observed" /\ past \cap {"streamed", "replaced"} = {}) =>
        (~AdjacentUsers /\ ~ForeignInInput)

\* C10, its first part: two callers running chat calls at the same time
\* leave two user messages with no assistant message between them and pass
\* each other's user message to the LLM
C10_Witness ==
    /\ usage = "concurrent"
    /\ past = {}
    /\ AdjacentUsers
    /\ ForeignInInput

====
